---- MODULE Spec2Model ----
(***************************************************************************)
(* Model of the HTTP task/auth client (class ApiClient): the private       *)
(* request helper, the nine endpoint bindings, logout and isAuthenticated, *)
(* together with the two localStorage keys and window.location.href.       *)
(*                                                                         *)
(* An endpoint call is two steps: the synchronous part up to the await of  *)
(* fetch (token read, header merge, one transport request), and the        *)
(* continuation that runs when the transport has delivered the response    *)
(* (or has rejected).  The continuation touches no shared state between    *)
(* the arrival of the status line and the end of response.json(), so the   *)
(* two awaits are delivered in one step.                                   *)
(***************************************************************************)
EXTENDS Naturals, Sequences, FiniteSets, Bags, TLC

VARIABLES
    isBrowser,  \* typeof window !== 'undefined'
    storage,    \* window.localStorage
    location,   \* window.location.href
    calls,      \* the bag of calls suspended at the await of fetch
    issued,     \* number of endpoint calls made so far
    done        \* the operation that completed last, with its outcome

vars == <<isBrowser, storage, location, calls, issued, done>>

(***************************************************************************)
(* Bounds                                                                  *)
(***************************************************************************)
\* Number of endpoint calls issued in one behaviour.
MaxCalls == 2

(***************************************************************************)
(* Strings of the program                                                  *)
(***************************************************************************)
baseUrl == "http://localhost:8000"
AccessKey == "accessToken"
RefreshKey == "refreshToken"
SignInRoute == "/auth/signin"
StartRoute == "/"

\* The value localStorage.getItem returns for a key that is not stored.
Null == [type |-> "null"]
Undefined == [type |-> "undefined"]

JString(s) == [type |-> "string", value |-> s]
JNumber(n) == [type |-> "number", value |-> n]
JArray(text) == [type |-> "array", text |-> text]
JObject(f) == [type |-> "object", fields |-> f]

(***************************************************************************)
(* localStorage                                                            *)
(***************************************************************************)
\* A Storage object: the keys present, each with its string value.
EmptyStorage == <<>>

getItem(st, key) == IF key \in DOMAIN st THEN JString(st[key]) ELSE Null

removeItem(st, key) == [k \in DOMAIN st \ {key} |-> st[k]]

setItem(st, key, value) ==
    [k \in DOMAIN st \cup {key} |-> IF k = key THEN value ELSE st[k]]

(***************************************************************************)
(* JavaScript values                                                       *)
(***************************************************************************)
\* ToBoolean, for the values that occur.
Truthy(v) ==
    CASE v.type = "string" -> v.value # ""
      [] v.type = "number" -> v.value # 0
      [] v.type = "array" -> TRUE
      [] v.type = "object" -> TRUE
      [] OTHER -> FALSE

\* v.name for a value that is neither null nor undefined.
Prop(v, name) ==
    IF v.type = "object" /\ name \in DOMAIN v.fields
    THEN v.fields[name]
    ELSE Undefined

\* JSON.stringify of a string, number or array.
JSONstringify(v) ==
    CASE v.type = "string" -> "\"" \o v.value \o "\""
      [] v.type = "number" -> ToString(v.value)
      [] v.type = "array" -> v.text

(***************************************************************************)
(* Responses of the server                                                 *)
(***************************************************************************)
BodyEmpty == ""
BodyHtml == "<html>Bad Gateway</html>"
BodyNull == "null"
BodyDetailString == "{\"detail\":\"bad credentials\"}"
BodyDetailArray == "{\"detail\":[{\"msg\":\"field required\"}]}"
BodyDetailZero == "{\"detail\":0}"
BodyLogin == "{\"access_token\":\"a2\",\"refresh_token\":\"r2\",\"token_type\":\"bearer\"}"

Bodies ==
    {BodyEmpty, BodyHtml, BodyNull, BodyDetailString, BodyDetailArray,
     BodyDetailZero, BodyLogin}

Statuses == {200, 204, 401, 403, 500}

statusText(status) ==
    CASE status = 200 -> "OK"
      [] status = 204 -> "No Content"
      [] status = 401 -> "Unauthorized"
      [] status = 403 -> "Forbidden"
      [] status = 500 -> "Internal Server Error"

Responses ==
    {[status |-> s, statusText |-> statusText(s), body |-> b] :
        s \in Statuses, b \in Bodies}

\* Response.ok
ok(response) == response.status >= 200 /\ response.status <= 299

\* JSON.parse of a body text: the value, or a SyntaxError.
JSONparse(text) ==
    CASE text = BodyNull -> [ok |-> TRUE, value |-> Null]
      [] text = BodyDetailString ->
            [ok |-> TRUE,
             value |-> JObject([detail |-> JString("bad credentials")])]
      [] text = BodyDetailArray ->
            [ok |-> TRUE,
             value |-> JObject([detail |-> JArray("[{\"msg\":\"field required\"}]")])]
      [] text = BodyDetailZero ->
            [ok |-> TRUE, value |-> JObject([detail |-> JNumber(0)])]
      [] text = BodyLogin ->
            [ok |-> TRUE,
             value |-> JObject([access_token |-> JString("a2"),
                                refresh_token |-> JString("r2"),
                                token_type |-> JString("bearer")])]
      [] OTHER -> [ok |-> FALSE]

(***************************************************************************)
(* Outcomes of a call                                                      *)
(***************************************************************************)
Resolved(v) == [kind |-> "resolved", value |-> v]
Rejected(err) == [kind |-> "rejected", error |-> err]
Error(message) == [name |-> "Error", message |-> message]

\* What fetch rejects with when the transport fails.
TransportError == [name |-> "TypeError", message |-> "Failed to fetch"]
\* What response.json() rejects with on a body that is not JSON.
ParseError == [name |-> "SyntaxError", message |-> "Unexpected end of JSON input"]

\* Reading a property of null: errorData.detail when the body is the JSON null.
NullDetailError ==
    [name |-> "TypeError",
     message |-> "Cannot read properties of null (reading 'detail')"]
\* Evaluating window.location where no window is declared.
NoWindowError == [name |-> "ReferenceError", message |-> "window is not defined"]

(***************************************************************************)
(* request: the synchronous part, up to the await of fetch                 *)
(***************************************************************************)
\* Object spread {...a, ...b}: the keys of both, b winning.
spread(a, b) ==
    [k \in DOMAIN a \cup DOMAIN b |-> IF k \in DOMAIN b THEN b[k] ELSE a[k]]

\* let token = null; if (typeof window !== 'undefined') token = getItem(...)
readToken(browser, st) == IF browser THEN getItem(st, AccessKey) ELSE Null

\* authorizationHeader testing token !== null in place of its truthiness.
authorizationHeader_anyValue(token) ==
    IF token # Null
    THEN "Authorization" :> ("Bearer " \o token.value)
    ELSE <<>>

\* ...(token ? { 'Authorization': `Bearer ${token}` } : {})
authorizationHeader(token) ==
    IF Truthy(token)
    THEN "Authorization" :> ("Bearer " \o token.value)
    ELSE <<>>

\* const headers = { 'Content-Type': ..., ...(token ? ... : {}), ...options.headers }
buildHeaders(token, optionHeaders) ==
    spread(spread("Content-Type" :> "application/json",
                  authorizationHeader(token)),
           optionHeaders)

\* ...options.headers, nothing when the caller gave no headers.
optionHeaders(options) ==
    IF "headers" \in DOMAIN options THEN options.headers ELSE <<>>

\* fetch(`${this.baseUrl}${endpoint}`, { ...options, headers })
fetchArguments(browser, st, endpoint, options) ==
    [url |-> baseUrl \o endpoint,
     init |-> spread(options,
                     [headers |-> buildHeaders(readToken(browser, st),
                                               optionHeaders(options))])]

(***************************************************************************)
(* request: the continuation, from the resolution of fetch to the return   *)
(***************************************************************************)
\* response.status === 401 || response.status === 403
isAuthStatus(status) == status = 401 \/ status = 403

\* await response.json().catch(() => ({}))
jsonCatch(body) ==
    IF JSONparse(body).ok THEN JSONparse(body).value ELSE JObject(<<>>)

\* errorDetail of the 401/403 branch, errorData not null.
authErrorDetail(errorData) ==
    LET detail == Prop(errorData, "detail")
    IN  IF detail.type = "string"
        THEN detail.value
        ELSE JSONstringify(IF Truthy(detail) THEN detail
                                             ELSE JString("Unauthorized"))

\* errorDetail of the !response.ok branch, errorData not null.
apiErrorDetail(errorData, response) ==
    LET detail == Prop(errorData, "detail")
    IN  IF detail.type = "string"
        THEN detail.value
        ELSE IF Truthy(detail)
             THEN JSONstringify(detail)
             ELSE "API request failed: " \o ToString(response.status)
                    \o " - " \o response.statusText

\* clearTokens without the removal of the refresh token.
clearTokens_accessOnly(browser, st) ==
    IF browser THEN removeItem(st, AccessKey) ELSE st

\* if (typeof window !== 'undefined') { removeItem(accessToken); removeItem(refreshToken) }
clearTokens(browser, st) ==
    IF browser THEN removeItem(removeItem(st, AccessKey), RefreshKey) ELSE st

\* The 401/403 branch: storage, location and outcome it leaves.
authFailure(browser, st, loc, response) ==
    LET errorData == jsonCatch(response.body)
    IN  IF errorData.type = "null"
        THEN [storage |-> st, location |-> loc, parsed |-> TRUE,
              outcome |-> Rejected(NullDetailError)]
        ELSE IF ~browser
        THEN [storage |-> clearTokens(browser, st), location |-> loc,
              parsed |-> TRUE, outcome |-> Rejected(NoWindowError)]
        ELSE [storage |-> clearTokens(browser, st), location |-> SignInRoute,
              parsed |-> TRUE,
              outcome |-> Rejected(Error(authErrorDetail(errorData)))]

\* apiFailure with the cleanup and redirect of the 401/403 branch.
apiFailure_clearing(st, loc, response) ==
    [storage |-> removeItem(removeItem(st, AccessKey), RefreshKey),
     location |-> SignInRoute, parsed |-> TRUE,
     outcome |-> Rejected(Error("API request failed"))]

\* The !response.ok branch.
apiFailure(st, loc, response) ==
    LET errorData == jsonCatch(response.body)
    IN  [storage |-> st, location |-> loc, parsed |-> TRUE,
         outcome |-> IF errorData.type = "null"
                     THEN Rejected(NullDetailError)
                     ELSE Rejected(Error(apiErrorDetail(errorData, response)))]

\* success persisting the pair of a LoginResponse before it returns it.
success_persisting(st, loc, response) ==
    IF response.status = 204
    THEN [storage |-> st, location |-> loc, parsed |-> FALSE,
          outcome |-> Resolved(Undefined)]
    ELSE [storage |-> IF response.body = BodyLogin
                      THEN setItem(setItem(st, AccessKey, "a2"),
                                   RefreshKey, "r2")
                      ELSE st,
          location |-> loc, parsed |-> TRUE,
          outcome |-> IF JSONparse(response.body).ok
                      THEN Resolved(JSONparse(response.body).value)
                      ELSE Rejected(ParseError)]

\* success without the test for 204: every 2xx body is parsed.
success_alwaysParsing(st, loc, response) ==
    [storage |-> st, location |-> loc, parsed |-> TRUE,
     outcome |-> IF JSONparse(response.body).ok
                 THEN Resolved(JSONparse(response.body).value)
                 ELSE Rejected(ParseError)]

\* The 2xx branches: 204 returns undefined, the others await response.json().
success(st, loc, response) ==
    IF response.status = 204
    THEN [storage |-> st, location |-> loc, parsed |-> FALSE,
          outcome |-> Resolved(Undefined)]
    ELSE [storage |-> st, location |-> loc, parsed |-> TRUE,
          outcome |-> IF JSONparse(response.body).ok
                      THEN Resolved(JSONparse(response.body).value)
                      ELSE Rejected(ParseError)]

\* Lines 71-108 as a whole.
handleResponse(browser, st, loc, response) ==
    IF isAuthStatus(response.status)
    THEN authFailure(browser, st, loc, response)
    ELSE IF ~ok(response)
    THEN apiFailure(st, loc, response)
    ELSE success(st, loc, response)

\* handleTransportError wrapping the transport's error in a new Error.
handleTransportError_wrapping(st, loc, err) ==
    [storage |-> st, location |-> loc, parsed |-> FALSE,
     outcome |-> Rejected(Error("Network error"))]

\* fetch rejected: the await throws and request rethrows it.
handleTransportError(st, loc, err) ==
    [storage |-> st, location |-> loc, parsed |-> FALSE,
     outcome |-> Rejected(err)]

(***************************************************************************)
(* logout and isAuthenticated                                              *)
(***************************************************************************)
\* logoutStorage without the removal of the refresh token.
logoutStorage_accessOnly(browser, st) ==
    IF browser THEN removeItem(st, AccessKey) ELSE st

\* The storage logout leaves.
logoutStorage(browser, st) ==
    IF browser THEN removeItem(removeItem(st, AccessKey), RefreshKey) ELSE st

\* authenticated testing getItem(...) !== null in place of its truthiness.
authenticated_keyPresent(browser, st) ==
    IF browser THEN getItem(st, AccessKey) # Null ELSE FALSE

\* The value isAuthenticated returns: !!localStorage.getItem('accessToken').
authenticated(browser, st) ==
    IF browser THEN Truthy(getItem(st, AccessKey)) ELSE FALSE

(***************************************************************************)
(* State                                                                   *)
(***************************************************************************)
\* What localStorage may hold when the page loads: nothing, the pair of an
\* earlier session, or an access token that is the empty string.
InitialStorages ==
    {EmptyStorage,
     (AccessKey :> "a1") @@ (RefreshKey :> "r1"),
     (AccessKey :> "") @@ (RefreshKey :> "r1")}

NoOperation == [kind |-> "none"]

Init ==
    /\ isBrowser \in BOOLEAN
    /\ storage \in IF isBrowser THEN InitialStorages ELSE {EmptyStorage}
    /\ location = IF isBrowser THEN StartRoute ELSE ""
    /\ calls = EmptyBag
    /\ issued = 0
    /\ done = NoOperation

(***************************************************************************)
(* Endpoint operations                                                     *)
(***************************************************************************)
\* The closure of a call suspended at the await: which operation made it,
\* what it passed to fetch, and how many times it has called fetch.
suspendedCall(op, fetch) == [op |-> op, fetch |-> fetch, fetches |-> 1]

\* request(endpoint, options) up to the await: one call of fetch.
request(op, endpoint, options) ==
    /\ issued < MaxCalls
    /\ issued' = issued + 1
    /\ calls' = calls (+)
          SetToBag({suspendedCall(op, fetchArguments(isBrowser, storage,
                                                     endpoint, options))})
    /\ UNCHANGED <<isBrowser, storage, location, done>>

TaskId == "1"
TaskCreateJson == "{\"title\":\"Buy milk\"}"
TaskUpdateJson == "{\"title\":\"Buy oat milk\"}"
CompletedJson == "{\"completed\":true}"
RegisterJson == "{\"email\":\"a@b.com\",\"password\":\"x\",\"name\":\"A\"}"
CredentialsJson == "{\"email\":\"a@b.com\",\"password\":\"x\"}"

getTasks == request("getTasks", "/tasks/", <<>>)

createTask ==
    request("createTask", "/tasks/",
            [method |-> "POST", body |-> TaskCreateJson])

getTaskById == request("getTaskById", "/tasks/" \o TaskId, <<>>)

updateTask ==
    request("updateTask", "/tasks/" \o TaskId,
            [method |-> "PUT", body |-> TaskUpdateJson])

deleteTask ==
    request("deleteTask", "/tasks/" \o TaskId, [method |-> "DELETE"])

toggleTaskCompletion ==
    request("toggleTaskCompletion", "/tasks/" \o TaskId \o "/complete",
            [method |-> "PATCH", body |-> CompletedJson])

getTaskStatistics == request("getTaskStatistics", "/tasks/statistics", <<>>)

register ==
    request("register", "/auth/register",
            [method |-> "POST", body |-> RegisterJson])

login ==
    request("login", "/auth/login",
            [method |-> "POST", body |-> CredentialsJson])

\* The operations whose declared result is LoginResponse.
AuthOps == {"register", "login"}

\* The Authorization header of a suspended call, <<>> when it has none.
SentAuthorization(c) ==
    [k \in DOMAIN c.fetch.init.headers \cap {"Authorization"} |->
        c.fetch.init.headers[k]]

\* The call was sent without the access token that is stored now.
sentWithoutToken(call, st) ==
    /\ Truthy(getItem(st, AccessKey))
    /\ SentAuthorization(call) # authorizationHeader(getItem(st, AccessKey))

\* What the caller of a settled call holds: how the transport ended, the
\* response, whether response.json() was called, and the outcome; stale
\* tells whether the stored access token had changed since the call was sent.
settledCall(call, transport, response, result) ==
    [kind |-> "request", auth |-> call.op \in AuthOps,
     fetches |-> call.fetches, transport |-> transport,
     stale |-> sentWithoutToken(call, storage),
     response |-> response, parsed |-> result.parsed,
     outcome |-> result.outcome]

\* The transport delivers a response to a suspended call; its continuation runs.
fetchResolve(call) ==
    /\ BagIn(call, calls)
    /\ \E response \in Responses :
          LET result == handleResponse(isBrowser, storage, location, response)
          IN  /\ storage' = result.storage
              /\ location' = result.location
              /\ done' = settledCall(call, "resolved", response, result)
    /\ calls' = calls (-) SetToBag({call})
    /\ UNCHANGED <<isBrowser, issued>>

\* The transport fails for a suspended call.
fetchReject(call) ==
    /\ BagIn(call, calls)
    /\ LET result == handleTransportError(storage, location, TransportError)
       IN  /\ storage' = result.storage
           /\ location' = result.location
           /\ done' = settledCall(call, "rejected", Null, result)
    /\ calls' = calls (-) SetToBag({call})
    /\ UNCHANGED <<isBrowser, issued>>

logout ==
    /\ storage' = logoutStorage(isBrowser, storage)
    /\ done' = [kind |-> "logout", outcome |-> Resolved(Undefined)]
    /\ UNCHANGED <<isBrowser, location, calls, issued>>

isAuthenticated ==
    /\ done' = [kind |-> "isAuthenticated",
                result |-> authenticated(isBrowser, storage)]
    /\ UNCHANGED <<isBrowser, storage, location, calls, issued>>

(***************************************************************************)
(* Calling code                                                            *)
(***************************************************************************)
\* A value of the shape of LoginResponse.
isLoginResponse(v) ==
    /\ v.type = "object"
    /\ {"access_token", "refresh_token"} \subseteq DOMAIN v.fields

\* The caller of login or register persists the pair it was returned.
storeTokens ==
    /\ isBrowser
    /\ done.kind = "request"
    /\ done.auth
    /\ done.outcome.kind = "resolved"
    /\ isLoginResponse(done.outcome.value)
    /\ storage' = setItem(setItem(storage, AccessKey,
                                  done.outcome.value.fields.access_token.value),
                          RefreshKey,
                          done.outcome.value.fields.refresh_token.value)
    /\ done' = [kind |-> "store"]
    /\ UNCHANGED <<isBrowser, location, calls, issued>>

Next ==
    \/ getTasks
    \/ createTask
    \/ getTaskById
    \/ updateTask
    \/ deleteTask
    \/ toggleTaskCompletion
    \/ getTaskStatistics
    \/ register
    \/ login
    \/ \E call \in BagToSet(calls) : fetchResolve(call)
    \/ \E call \in BagToSet(calls) : fetchReject(call)
    \/ logout
    \/ isAuthenticated
    \/ storeTokens

Spec == Init /\ [][Next]_vars

(***************************************************************************)
(* Steps of a call, as seen between two states                             *)
(***************************************************************************)
\* An endpoint operation ran up to its await of fetch.
IssueStep == issued' = issued + 1

\* The call IssueStep suspended.
IssuedCall ==
    CHOOSE c \in BagToSet(calls') : CopiesIn(c, calls') > CopiesIn(c, calls)

\* The continuation of a suspended call ran; done' describes that call.
SettleStep == issued' = issued /\ calls' # calls

\* The call SettleStep settled.
SettledCall ==
    CHOOSE c \in BagToSet(calls) : CopiesIn(c, calls) > CopiesIn(c, calls')

EndpointOps ==
    {"getTasks", "createTask", "getTaskById", "updateTask", "deleteTask",
     "toggleTaskCompletion", "getTaskStatistics", "register", "login"}

\* The last completed operation is an endpoint call the server answered.
Answered == done.kind = "request" /\ done.transport = "resolved"

BothKeysAbsent(st) == AccessKey \notin DOMAIN st /\ RefreshKey \notin DOMAIN st

(***************************************************************************)
(* C1                                                                      *)
(***************************************************************************)
\* C1: in a browser, a 401 or 403 response to any endpoint operation, with
\* any body, leaves both storage keys absent and the location at
\* /auth/signin, and the call rejects.
C1_AuthFailureClearsAndRedirects ==
    (isBrowser /\ Answered /\ isAuthStatus(done.response.status))
        => /\ BothKeysAbsent(storage)
           /\ location = SignInRoute
           /\ done.outcome.kind = "rejected"

(***************************************************************************)
(* C2                                                                      *)
(***************************************************************************)
\* C2: a response that is not 2xx and neither 401 nor 403 makes the call
\* reject, and neither the synchronous part of the call nor its continuation
\* changes the two storage keys or the location.
C2_OtherFailureLeavesState ==
    [][/\ IssueStep => (storage' = storage /\ location' = location)
       /\ (/\ SettleStep
           /\ SettledCall.op \in EndpointOps
           /\ done'.transport = "resolved"
           /\ ~ok(done'.response)
           /\ ~isAuthStatus(done'.response.status))
            => /\ done'.outcome.kind = "rejected"
               /\ storage' = storage
               /\ location' = location]_vars

\* A 500 was answered to a call while a token pair is stored, and the pair
\* is still there.
C2_Witness ==
    /\ Answered
    /\ done.response.status = 500
    /\ done.outcome.kind = "rejected"
    /\ isBrowser
    /\ {AccessKey, RefreshKey} \subseteq DOMAIN storage

(***************************************************************************)
(* C3                                                                      *)
(***************************************************************************)
\* C3 as stated: a request issued in a browser while any value T is stored
\* under accessToken carries Authorization: Bearer T; otherwise it carries
\* no Authorization header.
C3_BearerForAnyStoredValue ==
    [][IssueStep =>
        IF isBrowser /\ AccessKey \in DOMAIN storage
        THEN SentAuthorization(IssuedCall) =
                ("Authorization" :> ("Bearer " \o storage[AccessKey]))
        ELSE SentAuthorization(IssuedCall) = <<>>]_vars

\* C3 amended: a request issued in a browser while a non-empty value T is
\* stored under accessToken carries Authorization: Bearer T; when the key is
\* absent, its value is the empty string, or there is no browser, the request
\* carries no Authorization header.
C3_BearerForNonEmptyToken ==
    [][IssueStep =>
        IF isBrowser /\ AccessKey \in DOMAIN storage /\ storage[AccessKey] # ""
        THEN SentAuthorization(IssuedCall) =
                ("Authorization" :> ("Bearer " \o storage[AccessKey]))
        ELSE SentAuthorization(IssuedCall) = <<>>]_vars

\* A call is suspended that was sent with the access token that is stored.
C3_Witness ==
    /\ isBrowser
    /\ AccessKey \in DOMAIN storage
    /\ storage[AccessKey] # ""
    /\ \E c \in BagToSet(calls) :
          SentAuthorization(c) =
             ("Authorization" :> ("Bearer " \o storage[AccessKey]))

(***************************************************************************)
(* C4                                                                      *)
(***************************************************************************)
\* isAuthenticated ran and changed the record of the last operation.
IsAuthenticatedStep == done' # done /\ done'.kind = "isAuthenticated"

\* C4 as stated: isAuthenticated() is true exactly when there is a browser
\* and any value, the empty string included, is stored under accessToken.
C4_TrueForAnyStoredValue ==
    done.kind = "isAuthenticated" =>
        done.result = (isBrowser /\ AccessKey \in DOMAIN storage)

\* C4 amended: isAuthenticated() is true exactly when there is a browser and
\* a non-empty value is stored under accessToken (an empty string counts as
\* absent); it changes neither storage nor location and issues no request.
C4_TrueForNonEmptyToken ==
    /\ [](/\ authenticated(isBrowser, storage) =
                (/\ isBrowser
                 /\ AccessKey \in DOMAIN storage
                 /\ storage[AccessKey] # "")
          /\ done.kind = "isAuthenticated" =>
                done.result = (/\ isBrowser
                               /\ AccessKey \in DOMAIN storage
                               /\ storage[AccessKey] # ""))
    /\ [][IsAuthenticatedStep =>
            /\ storage' = storage
            /\ location' = location
            /\ calls' = calls
            /\ issued' = issued]_vars

\* isAuthenticated answered false although a value, the empty string, is
\* stored under accessToken.
C4_Witness ==
    /\ done.kind = "isAuthenticated"
    /\ done.result = FALSE
    /\ isBrowser
    /\ AccessKey \in DOMAIN storage

(***************************************************************************)
(* C5                                                                      *)
(***************************************************************************)
\* The calling code wrote the pair of a LoginResponse into storage.
StoreStep == done.kind = "request" /\ done'.kind = "store"

\* The strings a request would carry if it sent a stored refresh token.
RefreshStrings(st) ==
    IF RefreshKey \in DOMAIN st
    THEN {st[RefreshKey], "Bearer " \o st[RefreshKey]}
    ELSE {}

\* C5: no operation of the client adds a key to storage or rewrites a value
\* (only the calling code does); a successful register or login returns the
\* parsed LoginResponse and leaves storage as it was; no request carries the
\* stored refresh token.
C5_ClientNeverWritesTokens ==
    [][/\ ~StoreStep =>
            /\ DOMAIN storage' \subseteq DOMAIN storage
            /\ \A k \in DOMAIN storage' : storage'[k] = storage[k]
       /\ (/\ SettleStep
           /\ SettledCall.op \in AuthOps
           /\ done'.outcome.kind = "resolved")
            => storage' = storage
       /\ IssueStep =>
            \A h \in DOMAIN IssuedCall.fetch.init.headers :
                IssuedCall.fetch.init.headers[h] \notin RefreshStrings(storage)]_vars

\* login or register returned a LoginResponse and nothing is stored.
C5_Witness ==
    /\ isBrowser
    /\ Answered
    /\ done.auth
    /\ done.outcome.kind = "resolved"
    /\ isLoginResponse(done.outcome.value)
    /\ BothKeysAbsent(storage)

(***************************************************************************)
(* C6                                                                      *)
(***************************************************************************)
\* logout ran and changed the record of the last operation.
LogoutStep == done' # done /\ done'.kind = "logout"

\* C6: after logout in a browser both keys are absent and isAuthenticated is
\* false; logout resolves, issues no request and does not navigate; a second
\* logout changes nothing more.
C6_LogoutClearsBothKeys ==
    /\ []((isBrowser /\ done.kind = "logout")
            => /\ BothKeysAbsent(storage)
               /\ ~authenticated(isBrowser, storage)
               /\ done.outcome = Resolved(Undefined))
    /\ [](logoutStorage(isBrowser, logoutStorage(isBrowser, storage)) =
            logoutStorage(isBrowser, storage))
    /\ [][LogoutStep =>
            /\ location' = location
            /\ calls' = calls
            /\ issued' = issued]_vars

\* logout ran in a browser while a call was suspended.
C6_Witness ==
    /\ isBrowser
    /\ done.kind = "logout"
    /\ calls # EmptyBag
    /\ storage = EmptyStorage

(***************************************************************************)
(* C7                                                                      *)
(***************************************************************************)
\* C7 as stated: a 204 resolves with no value and without parsing the body;
\* every other 2xx response resolves with the parsed body; storage and
\* location are untouched.
C7_SuccessResolvesWithParsedBody ==
    [][(SettleStep /\ done'.transport = "resolved" /\ ok(done'.response))
        => /\ IF done'.response.status = 204
              THEN done'.outcome = Resolved(Undefined) /\ ~done'.parsed
              ELSE /\ done'.outcome.kind = "resolved"
                   /\ JSONparse(done'.response.body).ok
                   /\ done'.outcome.value = JSONparse(done'.response.body).value
           /\ storage' = storage
           /\ location' = location]_vars

\* C7 amended: a 204 resolves with no value and without parsing the body;
\* every other 2xx response whose body is valid JSON resolves with exactly
\* the parsed value, and one whose body is not valid JSON rejects with the
\* parse error; storage and location are untouched in every case.
C7_SuccessResolvesWhenBodyIsJson ==
    [][(SettleStep /\ done'.transport = "resolved" /\ ok(done'.response))
        => /\ IF done'.response.status = 204
              THEN done'.outcome = Resolved(Undefined) /\ ~done'.parsed
              ELSE IF JSONparse(done'.response.body).ok
              THEN done'.outcome =
                      Resolved(JSONparse(done'.response.body).value)
              ELSE done'.outcome = Rejected(ParseError)
           /\ storage' = storage
           /\ location' = location]_vars

\* A 204 with a body that is not JSON resolved with no value while a token
\* pair is stored.
C7_Witness ==
    /\ Answered
    /\ done.response.status = 204
    /\ ~JSONparse(done.response.body).ok
    /\ done.outcome = Resolved(Undefined)
    /\ {AccessKey, RefreshKey} \subseteq DOMAIN storage

(***************************************************************************)
(* C8                                                                      *)
(***************************************************************************)
\* C8: every non-2xx response makes the call throw an Error whose message
\* comes from the response: the body's detail when that is a string, and,
\* when the body does not parse, a fallback that for statuses other than
\* 401 and 403 is built from the status and the status text.
C8_MessageDerivedFromResponse ==
    (Answered /\ ~ok(done.response))
        => /\ done.outcome.kind = "rejected"
           /\ done.outcome.error.name = "Error"
           /\ (/\ JSONparse(done.response.body).ok
               /\ Prop(JSONparse(done.response.body).value, "detail").type
                     = "string")
                => done.outcome.error.message =
                      Prop(JSONparse(done.response.body).value, "detail").value
           /\ (/\ ~JSONparse(done.response.body).ok
               /\ ~isAuthStatus(done.response.status))
                => done.outcome.error.message =
                      "API request failed: " \o ToString(done.response.status)
                         \o " - " \o done.response.statusText

(***************************************************************************)
(* C9                                                                      *)
(***************************************************************************)
\* C9: every call makes exactly one transport request; a step that settles
\* a call issues none; a call whose transport rejects rejects with the
\* transport's error and changes neither storage nor location.
C9_OneRequestNoRetry ==
    /\ [](/\ \A c \in BagToSet(calls) : c.fetches = 1
          /\ done.kind = "request" =>
                /\ done.fetches = 1
                /\ done.transport \in {"resolved", "rejected"}
          /\ BagCardinality(calls) <= issued)
    /\ [][/\ IssueStep => BagCardinality(calls') = BagCardinality(calls) + 1
          /\ SettleStep => BagCardinality(calls') = BagCardinality(calls) - 1
          /\ (SettleStep /\ done'.transport = "rejected")
                => /\ done'.outcome = Rejected(TransportError)
                   /\ storage' = storage
                   /\ location' = location]_vars

\* The transport failed for a call while a token pair is stored, and the
\* pair is still there.
C9_Witness ==
    /\ done.kind = "request"
    /\ done.transport = "rejected"
    /\ done.outcome = Rejected(TransportError)
    /\ {AccessKey, RefreshKey} \subseteq DOMAIN storage

(***************************************************************************)
(* C10                                                                     *)
(***************************************************************************)
\* C10: the cleanup of a 401/403 does not look at the token the request was
\* sent with: whenever a request that was sent without the access token now
\* stored has thrown the error of its 401/403, the stored pair is gone and
\* the location is the sign-in route.
C10_CleanupIgnoresSentToken ==
    (/\ isBrowser
     /\ Answered
     /\ isAuthStatus(done.response.status)
     /\ done.outcome.error.name = "Error"
     /\ done.stale)
        => /\ BothKeysAbsent(storage)
           /\ location = SignInRoute

\* The race: a request that was sent before the caller of a successful login
\* stored the new pair got its 401/403 afterwards, and its cleanup removed
\* that pair and navigated to the sign-in route.
C10_Witness ==
    /\ isBrowser
    /\ Answered
    /\ ~done.auth
    /\ isAuthStatus(done.response.status)
    /\ done.stale
    /\ BothKeysAbsent(storage)
    /\ location = SignInRoute

====
